---- MODULE Spec2Model ----
(***************************************************************************)
(* A model of the cache-patching layer of src/src/offline.ts: the intent   *)
(* classifier (getOpTypeFromOperationName), the update strategies          *)
(* (getUpdater), the patch cycle (updateCache) and the options builders    *)
(* (getMutationOptions, getSubscriptionOptions), with the process-wide      *)
(* configuration (offlineConfig, setConfig).                               *)
(***************************************************************************)
EXTENDS Integers, Sequences, FiniteSets, TLC

VARIABLES
    offlineConfig,  \* the module-level configuration object (offline.ts:69)
    cache,          \* the external cache: target query -> stored result, or a miss
    call,           \* the last call made into the module, its arguments and outcome
    writeQueryCalls \* the number of calls of client.writeQuery made so far

vars == <<offlineConfig, cache, call, writeQueryCalls>>

(***************************************************************************)
(* JavaScript values.  Every value is a tagged record; an object is the    *)
(* sequence of its own <<key, value>> pairs in enumeration order, an array *)
(* the sequence of its elements.                                           *)
(***************************************************************************)
Undefined == [t |-> "undefined"]
Null == [t |-> "null"]
Num(n) == [t |-> "num", v |-> n]
Bool(b) == [t |-> "bool", v |-> b]
Str(s) == [t |-> "str", s |-> s]
Obj(kv) == [t |-> "obj", kv |-> kv]
Arr(e) == [t |-> "arr", e |-> e]
Fn(name) == [t |-> "fn", name |-> name]

\* !v
Falsy(v) == v \in {Undefined, Null, Bool(FALSE), Num(0), Str("")}

IsArray(v) == v.t = "arr"
IsObject(v) == v.t = "obj"

\* Object.keys(o), in enumeration order
Keys(o) == [i \in 1..Len(o.kv) |-> o.kv[i][1]]

HasKey(o, k) == \E i \in 1..Len(o.kv) : o.kv[i][1] = k

\* o[k]: undefined when o is a primitive or has no such own key
Get(o, k) ==
    IF IsObject(o) /\ HasKey(o, k)
    THEN o.kv[CHOOSE i \in 1..Len(o.kv) : o.kv[i][1] = k][2]
    ELSE Undefined

\* o with o[k] = v assigned: in place for an existing key, appended otherwise
Put(o, k, v) ==
    IF HasKey(o, k)
    THEN Obj([i \in 1..Len(o.kv) |-> IF o.kv[i][1] = k THEN <<k, v>> ELSE o.kv[i]])
    ELSE Obj(Append(o.kv, <<k, v>>))

(***************************************************************************)
(* Strings: String.prototype.toLowerCase and startsWith.                   *)
(***************************************************************************)
UpperCase ==
    << "A", "B", "C", "D", "E", "F", "G", "H", "I", "J", "K", "L", "M",
       "N", "O", "P", "Q", "R", "S", "T", "U", "V", "W", "X", "Y", "Z" >>

LowerCase ==
    << "a", "b", "c", "d", "e", "f", "g", "h", "i", "j", "k", "l", "m",
       "n", "o", "p", "q", "r", "s", "t", "u", "v", "w", "x", "y", "z" >>

\* the lower-case form of each upper-case letter
lowerCaseOf ==
    [c \in {UpperCase[i] : i \in 1..Len(UpperCase)} |->
        LowerCase[CHOOSE i \in 1..Len(UpperCase) : UpperCase[i] = c]]

toLowerCaseChar(c) == IF c \in DOMAIN lowerCaseOf THEN lowerCaseOf[c] ELSE c

\* the string with each of its characters in lower case
RECURSIVE lowerCaseForm(_)
lowerCaseForm(s) ==
    IF Len(s) = 0 THEN ""
    ELSE toLowerCaseChar(SubSeq(s, 1, 1)) \o lowerCaseForm(SubSeq(s, 2, Len(s)))

toUpperCaseChar(c) ==
    IF \E i \in 1..Len(LowerCase) : LowerCase[i] = c
    THEN UpperCase[CHOOSE i \in 1..Len(LowerCase) : LowerCase[i] = c]
    ELSE c

Capitalized(s) == toUpperCaseChar(SubSeq(s, 1, 1)) \o SubSeq(s, 2, Len(s))

startsWith(s, p) == Len(p) <= Len(s) /\ SubSeq(s, 1, Len(p)) = p

(***************************************************************************)
(* CacheOperationTypes and the default prefix lists.                       *)
(***************************************************************************)
AUTO == "auto"
ADD == "add"
REMOVE == "remove"
UPDATE == "update"
CacheOperationTypes == {AUTO, ADD, REMOVE, UPDATE}

prefixesForRemove ==
    << "delete",
       "deleted",
       "discard",
       "discarded",
       "erase",
       "erased",
       "remove",
       "removed" >>

prefixesForUpdate ==
    << "update",
       "updated",
       "upsert",
       "upserted",
       "edit",
       "edited",
       "modify",
       "modified",
       "analyze",
       "activate" >>

prefixesForAdd ==
    << "create",
       "created",
       "put",
       "set",
       "add",
       "added",
       "new",
       "insert",
       "inserted",
       "duplicate",
       "import" >>

(***************************************************************************)
(* Keys and names used by the model.                                       *)
(***************************************************************************)
on == "on"

idKey == "id"

Range(seq) == {seq[i] : i \in 1..Len(seq)}

DefaultPrefixes ==
    Range(prefixesForAdd) \cup Range(prefixesForRemove) \cup Range(prefixesForUpdate)

Post == "Post"

\* every default prefix in a name: in camel case, as a subscription name, capitalized
PrefixNames ==
    UNION { { p \o Post, on \o Capitalized(p) \o Post, Capitalized(p) \o Post }
            : p \in DefaultPrefixes }

TestNames ==
    { "createPost",
      "newPost",
      "insertPost",
      "updatePost",
      "editPost",
      "removePost",
      "deletePost",
      "onCreatePost",
      "addendum",
      "RemoveAddendum",
      "getPost",
      "posts",
      "onPost",
      "CREATEPOST",
      "setTitle",
      "putPost",
      "address",
      "no" }

\* the operation names of the model, and their lower-case forms, computed once
OperationNames == PrefixNames \cup TestNames

LowerCaseForms == [n \in OperationNames |-> lowerCaseForm(n)]

\* String.prototype.toLowerCase
toLowerCase(s) ==
    IF s \in DOMAIN LowerCaseForms THEN LowerCaseForms[s] ELSE lowerCaseForm(s)

(***************************************************************************)
(* offlineConfig and setConfig.  A configuration is a function from its    *)
(* own keys to their values; getIdFieldFromObject is not a key of the      *)
(* initial object.                                                         *)
(***************************************************************************)
initialOfflineConfig ==
    [prefixesForRemove |-> prefixesForRemove,
     prefixesForUpdate |-> prefixesForUpdate,
     prefixesForAdd |-> prefixesForAdd,
     idField |-> Str(idKey)]

\* target[k], undefined for a key the object does not own
Field(target, k) == IF k \in DOMAIN target THEN target[k] ELSE Undefined

\* Object.assign(target, source)
ObjectAssign(target, source) ==
    [k \in DOMAIN target \cup DOMAIN source |->
        IF k \in DOMAIN source THEN source[k] ELSE target[k]]

(***************************************************************************)
(* getOpTypeFromOperationName.  forEach visits the three rows in order and *)
(* the return inside its callback ends that one callback only.             *)
(***************************************************************************)
\* comparator without the toLowerCase() calls
comparatorCaseSensitive(opName, prefix) ==
    \/ startsWith(opName, prefix)
    \/ startsWith(opName, on \o prefix)

comparator(opName, prefix) ==
    \/ startsWith(toLowerCase(opName), prefix)
    \/ startsWith(toLowerCase(opName), on \o prefix)

\* prefix.some(comparator)
some(prefix, opName) == \E i \in 1..Len(prefix) : comparator(opName, prefix[i])

getOpTypeFromOperationName(opNameArg) ==
    LET opName == IF opNameArg = Undefined THEN "" ELSE opNameArg.s
        rows == << <<offlineConfig.prefixesForAdd, ADD>>,
                   <<offlineConfig.prefixesForRemove, REMOVE>>,
                   <<offlineConfig.prefixesForUpdate, UPDATE>> >>
        result[i \in 0..Len(rows)] ==
            IF i = 0 THEN AUTO
            ELSE IF some(rows[i][1], opName) THEN rows[i][2]
            ELSE result[i - 1]
    IN result[Len(rows)]

(***************************************************************************)
(* getUpdater.  A call either returns a value or throws; a thrown error is *)
(* the outcome Throw(e).                                                   *)
(***************************************************************************)
Throw(e) == [t |-> "throw", error |-> e]

IsThrow(v) == v.t = "throw"

typenameKey == "__typename"

undefinedKey == "undefined"

\* the property key a value used as a computed key names (a string, or undefined)
ToKey(k) == IF k = Undefined THEN undefinedKey ELSE k.s

\* reading a property of null or undefined throws a TypeError
PropThrows(v) == v \in {Null, Undefined}

\* a === b, for primitives (identity values are primitives)
StrictEquals(a, b) == a = b

\* Object.keys(v) of a non-null value: an object's own keys, none for a number or boolean
ObjectKeys(v) == IF IsObject(v) THEN Keys(v) ELSE <<>>

\* {...a, ...b}: a's keys in a's order, b's values over them, b's other keys after
Spread(a, b) ==
    LET A == IF IsObject(a) THEN a ELSE Obj(<<>>)
        B == IF IsObject(b) THEN b ELSE Obj(<<>>)
        put[i \in 0..Len(B.kv)] ==
            IF i = 0 THEN A ELSE Put(put[i - 1], B.kv[i][1], B.kv[i][2])
    IN put[Len(B.kv)]

\* pick(obj, keys): obj projected to those of keys it carries
pick(obj, keys) ==
    LET kept == SelectSeq(keys, LAMBDA k : IsObject(obj) /\ HasKey(obj, k))
    IN Obj([i \in 1..Len(kept) |-> <<kept[i], Get(obj, kept[i])>>])

\* the ADD updater without its filter: append only
addUpdaterAppendOnly(idField, currentValue, newItem) ==
    IF IsArray(currentValue)
    THEN IF ~Falsy(newItem) THEN Arr(Append(currentValue.e, newItem)) ELSE Arr(currentValue.e)
    ELSE newItem

addUpdater(idField, currentValue, newItem) ==
    IF IsArray(currentValue)
    THEN IF ~Falsy(newItem)
         THEN IF \E i \in 1..Len(currentValue.e) : PropThrows(currentValue.e[i])
              THEN Throw("TypeError")
              ELSE Arr(Append(
                       SelectSeq(currentValue.e,
                                 LAMBDA item : ~StrictEquals(Get(item, ToKey(idField)),
                                                             Get(newItem, ToKey(idField)))),
                       newItem))
         ELSE Arr(currentValue.e)
    ELSE newItem

\* the UPDATE updater merging the new item into the matching element
updateUpdaterMerging(idField, currentValue, newItem) ==
    IF IsArray(currentValue)
    THEN IF ~Falsy(newItem)
         THEN Arr([i \in 1..Len(currentValue.e) |->
                    IF StrictEquals(Get(currentValue.e[i], ToKey(idField)),
                                    Get(newItem, ToKey(idField)))
                    THEN Spread(currentValue.e[i], newItem)
                    ELSE currentValue.e[i]])
         ELSE Arr(currentValue.e)
    ELSE Spread(currentValue, newItem)

updateUpdater(idField, currentValue, newItem) ==
    IF IsArray(currentValue)
    THEN IF ~Falsy(newItem)
         THEN IF \E i \in 1..Len(currentValue.e) : PropThrows(currentValue.e[i])
              THEN Throw("TypeError")
              ELSE Arr([i \in 1..Len(currentValue.e) |->
                         IF StrictEquals(Get(currentValue.e[i], ToKey(idField)),
                                         Get(newItem, ToKey(idField)))
                         THEN newItem
                         ELSE currentValue.e[i]])
         ELSE Arr(currentValue.e)
    ELSE IF PropThrows(currentValue)
         THEN Throw("TypeError")
         ELSE Spread(currentValue,
                     pick(newItem,
                          SelectSeq(ObjectKeys(currentValue),
                                    LAMBDA key : key # typenameKey)))

\* the REMOVE updater with the test of its filter inverted
removeUpdaterInverted(idField, currentValue, newItem) ==
    IF IsArray(currentValue)
    THEN IF ~Falsy(newItem)
         THEN Arr(SelectSeq(currentValue.e,
                            LAMBDA item : StrictEquals(Get(item, ToKey(idField)),
                                                       Get(newItem, ToKey(idField)))))
         ELSE Arr(currentValue.e)
    ELSE currentValue

removeUpdater(idField, currentValue, newItem) ==
    IF IsArray(currentValue)
    THEN IF ~Falsy(newItem)
         THEN IF \E i \in 1..Len(currentValue.e) : PropThrows(currentValue.e[i])
              THEN Throw("TypeError")
              ELSE Arr(SelectSeq(currentValue.e,
                                 LAMBDA item : ~StrictEquals(Get(item, ToKey(idField)),
                                                             Get(newItem, ToKey(idField)))))
         ELSE Arr(currentValue.e)
    ELSE Null

\* getUpdater(opType, idField)(currentValue, newItem)
getUpdater(opType, idField, currentValue, newItem) ==
    CASE opType = ADD -> addUpdater(idField, currentValue, newItem)
      [] opType = UPDATE -> updateUpdater(idField, currentValue, newItem)
      [] opType = REMOVE -> removeUpdater(idField, currentValue, newItem)
      [] OTHER -> currentValue

(***************************************************************************)
(* The items of test/offline.test.ts.  A title or a date is a short string *)
(* standing for the test's text.                                           *)
(***************************************************************************)
userIdKey == "user_id"

titleKey == "title"

dateKey == "date"

postType == Str("post")

Item(id, userId, title, date) ==
    Obj(<< <<typenameKey, postType>>, <<idKey, Num(id)>>, <<userIdKey, Num(userId)>>,
           <<titleKey, Str(title)>>, <<dateKey, Str(date)>> >>)

post1 == Item(1, 1, "A", "01")

post2 == Item(24, 10, "C", "24")

post3 == Item(25, 9, "O", "25")

newPost == Item(26, 11, "N", "31")

\* {id: post3.id, title: 'Updated post', __typename: 'post'}
updatedPost ==
    Obj(<< <<idKey, Num(25)>>, <<titleKey, Str("U")>>, <<typenameKey, postType>> >>)

(***************************************************************************)
(* The external cache.  A query document is known by the result key of its *)
(* first selection; the cache maps a <<query, variables>> pair to the      *)
(* result stored under it, or to Miss when the pair was never written.     *)
(***************************************************************************)
Doc(field) == [t |-> "doc", field |-> field]

postsKey == "posts"

postKey == "post"

featuredPostsKey == "featuredPosts"

featuredKey == "featured"

totalKey == "total"

feedKey == "feed"

postsQuery == Doc(postsKey)

featuredPostsQuery == Doc(featuredPostsKey)

postQuery == Doc(postKey)

feedQuery == Doc(feedKey)

noVariables == Obj(<<>>)

postVariables == Obj(<< <<idKey, Num(1)>> >>)

CacheKeys ==
    { <<postsQuery, noVariables>>, <<featuredPostsQuery, noVariables>>,
      <<postQuery, postVariables>>, <<feedQuery, noVariables>> }

Miss == [t |-> "miss"]

\* getOperationFieldName(operation)
getOperationFieldName(operation) == operation.field

(***************************************************************************)
(* Init: the configuration as the module creates it, and a cache an        *)
(* application has primed with one query: the posts list as the tests      *)
(* prime it, a single post, or a feed holding its list inside an object.   *)
(* featuredPostsQuery is never written.                                    *)
(***************************************************************************)
InitialPosts == Arr(<<post1, post2, post3>>)

PrimedWith(key, data) == [k \in CacheKeys |-> IF k = key THEN data ELSE Miss]

PrimedCaches ==
    { PrimedWith(<<postsQuery, noVariables>>, Obj(<< <<postsKey, InitialPosts>> >>)),
      PrimedWith(<<postQuery, postVariables>>, Obj(<< <<postKey, post3>> >>)),
      PrimedWith(<<feedQuery, noVariables>>,
                 Obj(<< <<feedKey, Obj(<< <<totalKey, Num(2)>>,
                                          <<featuredKey, Arr(<<post1, post3>>)>> >>)>> >>)) }

Init ==
    /\ offlineConfig = initialOfflineConfig
    /\ cache \in PrimedCaches
    /\ call = [op |-> "none"]
    /\ writeQueryCalls = 0

\* setConfig(config)
setConfig(config) ==
    /\ offlineConfig' = ObjectAssign(offlineConfig, config)
    /\ call' = [op |-> "setConfig", config |-> config]
    /\ UNCHANGED <<cache, writeQueryCalls>>

(***************************************************************************)
(* Object graphs.  The result readQuery hands out is a graph of objects    *)
(* and arrays; a heap maps the address of each node to the node, an object *)
(* or an array whose slots hold primitives or references Ref(a) to the     *)
(* node at address a.  The address of a node is the path that leads to it  *)
(* from the root it was built under (an array index is the property key of *)
(* the element).  Graph builds the graph of a value, Deref reads it back.  *)
(***************************************************************************)
Ref(a) == [t |-> "ref", a |-> a]

IsRef(v) == v.t = "ref"

\* the property keys of array elements
IndexKeys == <<"0", "1", "2", "3", "4", "5", "6", "7", "8", "9">>

\* what a slot holds for a value built at an address
Slot(v, at) == IF IsObject(v) \/ IsArray(v) THEN Ref(at) ELSE v

\* the <<address, node>> pairs of the graph of a value built at an address
RECURSIVE Nodes(_, _)
Nodes(v, at) ==
    IF IsObject(v)
    THEN {<<at, Obj([i \in 1..Len(v.kv) |->
                       <<v.kv[i][1], Slot(v.kv[i][2], Append(at, v.kv[i][1]))>>])>>}
         \cup UNION {Nodes(v.kv[i][2], Append(at, v.kv[i][1])) : i \in 1..Len(v.kv)}
    ELSE IF IsArray(v)
    THEN {<<at, Arr([i \in 1..Len(v.e) |-> Slot(v.e[i], Append(at, IndexKeys[i]))])>>}
         \cup UNION {Nodes(v.e[i], Append(at, IndexKeys[i])) : i \in 1..Len(v.e)}
    ELSE {}

Graph(v, at) ==
    LET nodes == Nodes(v, at)
    IN [a \in {n[1] : n \in nodes} |-> (CHOOSE n \in nodes : n[1] = a)[2]]

RECURSIVE Deref(_, _)
Deref(h, v) ==
    IF ~IsRef(v) THEN v
    ELSE IF IsObject(h[v.a])
    THEN Obj([i \in 1..Len(h[v.a].kv) |->
                 <<h[v.a].kv[i][1], Deref(h, h[v.a].kv[i][2])>>])
    ELSE Arr([i \in 1..Len(h[v.a].e) |-> Deref(h, h[v.a].e[i])])

(***************************************************************************)
(* Path utilities (./utils): array discovery, read by path, write by path. *)
(***************************************************************************)
Path(p) == [t |-> "path", p |-> p]

\* the path to the first array met depth-first in key order; the empty path when
\* the value is itself an array; undefined when it holds none
RECURSIVE findArrayInObject(_)
findArrayInObject(obj) ==
    IF IsArray(obj) THEN Path(<<>>)
    ELSE IF ~IsObject(obj) THEN Undefined
    ELSE LET found[i \in 0..Len(obj.kv)] ==
                 IF i = 0 THEN Undefined
                 ELSE IF found[i - 1] # Undefined THEN found[i - 1]
                 ELSE LET sub == findArrayInObject(obj.kv[i][2])
                      IN IF sub = Undefined THEN Undefined
                         ELSE Path(<<obj.kv[i][1]>> \o sub.p)
         IN found[Len(obj.kv)]

\* the value at the path; the value itself for the empty or undefined path
RECURSIVE getValueByPath(_, _)
getValueByPath(obj, path) ==
    IF path = Undefined \/ Len(path.p) = 0 THEN obj
    ELSE getValueByPath(Get(obj, Head(path.p)), Path(Tail(path.p)))

\* container[last segment] = value, on the nodes themselves
RECURSIVE setValueByPath(_, _, _, _)
setValueByPath(h, a, path, value) ==
    IF Len(path) = 1 THEN [h EXCEPT ![a] = Put(h[a], path[1], value)]
    ELSE setValueByPath(h, Get(h[a], Head(path)).a, Tail(path), value)

(***************************************************************************)
(* produce(base, recipe), immer's copy-on-write.  The recipe reads the     *)
(* draft and makes one assignment: draft[queryField] = update, or          *)
(* setValueByPath(draft[queryField], path, update).  An assignment to a    *)
(* draft copies the assigned node and its ancestors up to the root and     *)
(* leaves the base's nodes alone; an assignment of the value a slot        *)
(* already holds changes nothing, and produce then returns the base.  An   *)
(* error thrown by the recipe leaves produce as it was thrown.             *)
(***************************************************************************)
\* what the recipe of updateCache does on the draft of cachedQueryResult
recipe(draft, queryField, opType, idFieldName, mutatedItem) ==
    LET opResultCachedValue == Get(draft, queryField)
        path == findArrayInObject(opResultCachedValue)
        current == getValueByPath(opResultCachedValue, path)
        update == getUpdater(opType, idFieldName, current, mutatedItem)
    IN IF IsThrow(update) THEN update
       ELSE [t |-> "assign",
             at |-> IF path = Undefined \/ Len(path.p) = 0
                    THEN <<queryField>>
                    ELSE <<queryField>> \o path.p,
             update |-> update,
             \* the updater handed back the draft it was given, or the primitive in place
             same |-> \/ opType \notin {ADD, UPDATE, REMOVE}
                      \/ (~IsObject(update) /\ ~IsArray(update) /\ update = current)]

baseRoot == <<"base">>

\* the address of the draft's copy of a node of the base
CopyOf(a) == <<"copy">> \o Tail(a)

\* the copies a draft makes for an assignment at a path under the root: the node
\* assigned to and its ancestors, each copy pointing to the next, the last holding
\* the value
copyOnWrite(h, root, path, value) ==
    LET at(i) == root \o SubSeq(path, 1, i)
    IN [a \in {CopyOf(at(i)) : i \in 0..(Len(path) - 1)} |->
           LET i == CHOOSE j \in 0..(Len(path) - 1) : CopyOf(at(j)) = a
           IN Put(h[at(i)], path[i + 1],
                  IF i = Len(path) - 1 THEN value ELSE Ref(CopyOf(at(i + 1))))]

\* the recipe's assignment made on the base's own nodes, with no draft
produceInPlace(h, base, effect) ==
    IF IsThrow(effect) THEN [h |-> h, r |-> effect]
    ELSE IF effect.same THEN [h |-> h, r |-> base]
    ELSE LET new == Graph(effect.update, <<"update">>)
             value == Slot(effect.update, <<"update">>)
         IN [h |-> setValueByPath(h @@ new, base.a, effect.at, value), r |-> base]

\* produce on the heap: the heap after, and the root returned (or the error thrown)
produce(h, base, effect) ==
    IF IsThrow(effect) THEN [h |-> h, r |-> effect]
    ELSE IF effect.same THEN [h |-> h, r |-> base]
    ELSE LET new == Graph(effect.update, <<"update">>)
             value == Slot(effect.update, <<"update">>)
         IN [h |-> h @@ new @@ copyOnWrite(h, base.a, effect.at, value),
             r |-> Ref(CopyOf(base.a))]

(***************************************************************************)
(* The functions callers pass in: mapResultToUpdate as in the test (the    *)
(* payload's item with its title rewritten), getIdFieldFromObject as in    *)
(* the README (the identity field by __typename), and a caller's own       *)
(* completion callback.                                                    *)
(***************************************************************************)
mapResultToUpdateFn == Fn("mapResultToUpdate")

getIdFieldFromObjectFn == Fn("getIdFieldFromObject")

callerCallback == Fn("caller")

mappedTitle == Str("M")

applyFn(fn, arg) ==
    CASE fn = mapResultToUpdateFn ->
            IF Len(ObjectKeys(arg)) = 0 \/ PropThrows(Get(arg, ObjectKeys(arg)[1]))
            THEN Throw("TypeError")
            ELSE Spread(Get(arg, ObjectKeys(arg)[1]), Obj(<< <<titleKey, mappedTitle>> >>))
      [] fn = getIdFieldFromObjectFn ->
            IF PropThrows(arg) THEN Throw("TypeError")
            ELSE IF Get(arg, typenameKey) = postType /\ Get(arg, userIdKey) # Undefined
            THEN Str(userIdKey)
            ELSE Undefined
      [] OTHER -> Undefined

(***************************************************************************)
(* The client.  readQuery throws on a miss, or returns null where the      *)
(* client reports a miss that way, and may throw for its own reasons;      *)
(* writeQuery stores the data under the query and variables, or throws.    *)
(* The behaviour of the two calls during one updateCache is client.        *)
(***************************************************************************)
QueryWithVariables(query, variables) == [t |-> "qv", query |-> query, variables |-> variables]

Client(read, write) == [readQuery |-> read, writeQuery |-> write]

readQuery(client, query, variables) ==
    LET stored == IF <<query, variables>> \in CacheKeys THEN cache[<<query, variables>>]
                  ELSE Miss
    IN CASE client.readQuery = "throws" -> Throw("ReadError")
         [] client.readQuery = "null" -> IF stored = Miss THEN Null ELSE stored
         [] OTHER -> IF stored = Miss THEN Throw("MissingFieldError") ELSE stored

(***************************************************************************)
(* updateCache.  Its outcome: whether it returned or threw, the readQuery  *)
(* and writeQuery calls it made, and the object graph before and after.    *)
(***************************************************************************)
Outcome(outcome, error, opType, mutatedItem, reads, cachedQueryResult) ==
    [outcome |-> outcome, error |-> error, opType |-> opType, mutatedItem |-> mutatedItem,
     reads |-> reads, cachedQueryResult |-> cachedQueryResult, idFieldName |-> Undefined,
     writes |-> <<>>, heapBefore |-> <<>>, heapAfter |-> <<>>,
     readRoot |-> Undefined, writtenRoot |-> Undefined]

\* offlineConfig.getIdFieldFromObject?.(mutatedItem), evaluated when idField is falsy
getIdFieldFromObject(idField, mutatedItem) ==
    LET callback == Field(offlineConfig, "getIdFieldFromObject")
    IN IF Falsy(idField) /\ callback \notin {Undefined, Null}
       THEN applyFn(callback, mutatedItem)
       ELSE Undefined

\* the choice of lines 202-203 with the configured default before the callback
resolveIdFieldNameDefaultFirst(idField, fromObject) ==
    IF ~Falsy(idField) THEN idField
    ELSE IF ~Falsy(offlineConfig.idField) THEN offlineConfig.idField
    ELSE fromObject

\* lines 202-203: idField || getIdFieldFromObject?.(mutatedItem) || offlineConfig.idField
resolveIdFieldName(idField, fromObject) ==
    IF ~Falsy(idField) THEN idField
    ELSE IF ~Falsy(fromObject) THEN fromObject
    ELSE offlineConfig.idField

\* lines 202-218: identity field, produce, writeQuery
patchAndWrite(a, opType, mutatedItem, query, queryVars, cachedQueryResult) ==
    LET queryField == getOperationFieldName(query)
        reads == << <<query, queryVars>> >>
        fromObject == getIdFieldFromObject(a.idField, mutatedItem)
        idFieldName == resolveIdFieldName(a.idField, fromObject)
        graph == [h |-> Graph(cachedQueryResult, baseRoot),
                  r |-> Slot(cachedQueryResult, baseRoot)]
        produced == produce(graph.h, graph.r,
                            recipe(cachedQueryResult, queryField, opType, idFieldName,
                                   mutatedItem))
        out == Outcome("returned", "none", opType, mutatedItem, reads, cachedQueryResult)
    IN IF IsThrow(fromObject)
       THEN [out EXCEPT !.outcome = "threw", !.error = fromObject.error]
       ELSE IF IsThrow(produced.r)
       THEN [out EXCEPT !.outcome = "threw", !.error = produced.r.error,
                        !.idFieldName = idFieldName,
                        !.heapBefore = graph.h, !.heapAfter = produced.h,
                        !.readRoot = graph.r]
       ELSE [out EXCEPT !.outcome = IF a.client.writeQuery = "throws" THEN "threw"
                                    ELSE "returned",
                        !.error = IF a.client.writeQuery = "throws" THEN "WriteError"
                                  ELSE "none",
                        !.idFieldName = idFieldName,
                        !.writes = << [query |-> query, variables |-> queryVars,
                                       data |-> Deref(produced.h, produced.r)] >>,
                        !.heapBefore = graph.h, !.heapAfter = produced.h,
                        !.readRoot = graph.r, !.writtenRoot = produced.r]

\* lines 187-201: the item, the target query, the read
readAndPatch(a, opType, opFieldName) ==
    LET mutatedItem == IF ~Falsy(a.mapResultToUpdate)
                       THEN applyFn(a.mapResultToUpdate, a.data)
                       ELSE Get(a.data, ToKey(opFieldName))
        isPair == a.updateQuery.t = "qv"
        query == IF isPair /\ ~Falsy(a.updateQuery.query) THEN a.updateQuery.query
                 ELSE a.updateQuery
        queryVars == IF isPair /\ ~Falsy(a.updateQuery.variables)
                     THEN a.updateQuery.variables
                     ELSE noVariables
        cachedQueryResult == readQuery(a.client, query, queryVars)
    IN IF IsThrow(mutatedItem)
       THEN Outcome("threw", mutatedItem.error, opType, Undefined, <<>>, Undefined)
       ELSE IF PropThrows(a.updateQuery) \/ query.t # "doc"
       THEN Outcome("threw", "TypeError", opType, mutatedItem, <<>>, Undefined)
       ELSE IF IsThrow(cachedQueryResult)  \* caught: return
       THEN Outcome("returned", "none", opType, mutatedItem,
                    << <<query, queryVars>> >>, Undefined)
       ELSE IF Falsy(cachedQueryResult)
       THEN Outcome("returned", "none", opType, mutatedItem,
                    << <<query, queryVars>> >>, cachedQueryResult)
       ELSE patchAndWrite(a, opType, mutatedItem, query, queryVars, cachedQueryResult)

\* the check of line 186 left out
afterOpTypeUnchecked(a, opType, opFieldName) == readAndPatch(a, opType, opFieldName)

\* line 186
afterOpType(a, opType, opFieldName) ==
    IF Falsy(Get(a.data, ToKey(opFieldName)))
    THEN Outcome("returned", "none", opType, Undefined, <<>>, Undefined)
    ELSE readAndPatch(a, opType, opFieldName)

updateCache(a) ==
    IF Falsy(a.data)
    THEN Outcome("returned", "none", "none", Undefined, <<>>, Undefined)
    ELSE LET keys == ObjectKeys(a.data)
             opFieldName == IF Len(keys) = 0 THEN Undefined ELSE Str(keys[1])
             operationType == IF a.operationType = Undefined THEN AUTO
                              ELSE a.operationType.s
             opType == IF operationType = AUTO
                       THEN getOpTypeFromOperationName(opFieldName)
                       ELSE operationType
         IN afterOpType(a, opType, opFieldName)

\* the cache after the writeQuery calls of an outcome
cacheAfter(out, client) ==
    IF Len(out.writes) = 0 \/ client.writeQuery = "throws" THEN cache
    ELSE [cache EXCEPT ![<<out.writes[1].query, out.writes[1].variables>>] =
                           out.writes[1].data]

(***************************************************************************)
(* getMutationOptions and getSubscriptionOptions.  Options are a function  *)
(* from their own keys to values; the injected callback is a closure over  *)
(* the recipe fields.                                                      *)
(***************************************************************************)
RecipeKeys == {"updateQuery", "idField", "operationType", "mapResultToUpdate"}

\* ...options: the own keys left after the recipe fields are taken out
Rest(options) == [k \in DOMAIN options \ RecipeKeys |-> options[k]]

\* the callback that invokes updateCache with the recipe fields
Injected(options) ==
    [t |-> "fn", name |-> "updateCache",
     updateQuery |-> Field(options, "updateQuery"),
     idField |-> Field(options, "idField"),
     operationType |-> Field(options, "operationType"),
     mapResultToUpdate |-> Field(options, "mapResultToUpdate")]

getMutationOptions(options) ==
    IF Falsy(Field(options, "updateQuery")) \/ ~Falsy(Field(Rest(options), "update"))
    THEN Rest(options)
    ELSE ObjectAssign([update |-> Injected(options)], Rest(options))

getSubscriptionOptions(options) ==
    IF \/ Falsy(Field(options, "updateQuery"))
       \/ ~Falsy(Field(Rest(options), "onSubscriptionData"))
    THEN Rest(options)
    ELSE ObjectAssign([onSubscriptionData |-> Injected(options)], Rest(options))

(***************************************************************************)
(* The operations: direct calls of updateCache, the options builders, and  *)
(* the completion of a mutation or subscription, which calls the callback  *)
(* the built options carry.                                                *)
(***************************************************************************)
Args(client, data, idField, updateQuery, operationType, mapResultToUpdate) ==
    [client |-> client, data |-> data, idField |-> idField, updateQuery |-> updateQuery,
     operationType |-> operationType, mapResultToUpdate |-> mapResultToUpdate]

\* the number of writeQuery calls a run makes
MaxWrites == 3

UpdateCache(a) ==
    \E out \in {updateCache(a)} :
       /\ writeQueryCalls + Len(out.writes) <= MaxWrites
       /\ call' = [op |-> "updateCache", args |-> a, out |-> out]
       /\ cache' = cacheAfter(out, a.client)
       /\ writeQueryCalls' = writeQueryCalls + Len(out.writes)
       /\ UNCHANGED offlineConfig

GetMutationOptions(options) ==
    /\ call' = [op |-> "getMutationOptions", callbackKey |-> "update",
                options |-> options, returned |-> getMutationOptions(options)]
    /\ UNCHANGED <<offlineConfig, cache, writeQueryCalls>>

GetSubscriptionOptions(options) ==
    /\ call' = [op |-> "getSubscriptionOptions", callbackKey |-> "onSubscriptionData",
                options |-> options, returned |-> getSubscriptionOptions(options)]
    /\ UNCHANGED <<offlineConfig, cache, writeQueryCalls>>

\* the operation completes with data: the client calls the callback of the options
Complete(client, data) ==
    /\ call.op \in {"getMutationOptions", "getSubscriptionOptions"}
    /\ LET callback == Field(call.returned, call.callbackKey)
           injected == callback.t = "fn" /\ callback.name = "updateCache"
           a == Args(client, data, callback.idField, callback.updateQuery,
                     callback.operationType, callback.mapResultToUpdate)
           out == IF injected THEN updateCache(a)
                  ELSE Outcome("returned", "none", "none", Undefined, <<>>, Undefined)
       IN /\ writeQueryCalls + Len(out.writes) <= MaxWrites
          /\ writeQueryCalls' = writeQueryCalls + Len(out.writes)
          /\ call' = [op |-> "complete", of |-> call.op, options |-> call.options,
                      returned |-> call.returned, data |-> data,
                      invoked |-> IF injected THEN "updateCache"
                                  ELSE IF Falsy(callback) THEN "none"
                                  ELSE "caller",
                      args |-> IF injected THEN a ELSE Undefined,
                      out |-> out]
          /\ cache' = cacheAfter(out, client)
    /\ UNCHANGED offlineConfig

(***************************************************************************)
(* The inputs of the operations.                                           *)
(***************************************************************************)
Payload(name, value) == Obj(<< <<name, value>> >>)

TruthyPayloads ==
    { Payload("createPost", newPost), Payload("deletePost", post3),
      Payload("updatePost", updatedPost), Payload("getPost", post1) }

FalsyPayloads ==
    { Undefined, Null, Obj(<<>>), Payload("createPost", Undefined),
      Payload("createPost", Null), Payload("createPost", Bool(FALSE)),
      Payload("createPost", Num(0)), Payload("createPost", Str("")) }

UpdateQueries ==
    { postsQuery, featuredPostsQuery, QueryWithVariables(postQuery, postVariables),
      QueryWithVariables(feedQuery, Undefined) }

OperationTypes == {Undefined} \cup {Str(opType) : opType \in CacheOperationTypes}

okClient == Client("ok", "ok")

\* the calls of updateCache: every payload against every target query with the
\* intent classified from the payload; explicit intents; payloads that stop the
\* call; a cache that throws or returns nothing on the read; a mapped item; an
\* identity field given with the recipe; a cache that throws on the write; a recipe
\* with no target query; an item created under the id of a cached one, with another
\* identity field given
UpdateCacheInputs ==
    { Args(okClient, data, Undefined, updateQuery, Undefined, Undefined) :
        data \in TruthyPayloads, updateQuery \in UpdateQueries }
    \cup
    { Args(okClient, Payload("createPost", newPost), Undefined, updateQuery,
           operationType, Undefined) :
        updateQuery \in UpdateQueries \ {featuredPostsQuery},
        operationType \in OperationTypes \ {Undefined} }
    \cup
    { Args(okClient, data, Undefined, postsQuery, Undefined, Undefined) :
        data \in FalsyPayloads }
    \cup
    { Args(okClient, data, Undefined, postsQuery, Undefined, mapResultToUpdateFn) :
        data \in {Undefined, Payload("createPost", Null), Payload("createPost", Num(0))} }
    \cup
    { Args(Client(read, "ok"), Payload("createPost", newPost), Undefined, updateQuery,
           Undefined, Undefined) :
        read \in {"throws", "null"}, updateQuery \in {postsQuery, featuredPostsQuery} }
    \cup
    { Args(okClient, Payload("updatePost", updatedPost), idField, updateQuery, Undefined,
           mapResultToUpdate) :
        idField \in {Undefined, Str(userIdKey)},
        updateQuery \in {postsQuery, QueryWithVariables(postQuery, postVariables)},
        mapResultToUpdate \in {Undefined, mapResultToUpdateFn} }
    \cup
    { Args(Client("ok", "throws"), Payload("createPost", newPost), Undefined, postsQuery,
           Undefined, Undefined),
      Args(okClient, Payload("createPost", newPost), Undefined, Undefined, Undefined,
           Undefined),
      Args(okClient, Payload("createPost", newPost), Undefined, postsQuery, Undefined,
           mapResultToUpdateFn),
      Args(okClient, Payload("createPost", updatedPost), Str(userIdKey), postsQuery,
           Undefined, Undefined) }

\* a callback configured; the default identity field overridden and the callback unset
ConfigInputs ==
    { [getIdFieldFromObject |-> getIdFieldFromObjectFn],
      [idField |-> Str(userIdKey), getIdFieldFromObject |-> Undefined] }

\* options for the builder whose completion callback is named callbackKey
OptionInputs(callbackKey) ==
    { [updateQuery |-> postsQuery],
      [updateQuery |-> postsQuery, variables |-> postVariables],
      [variables |-> postVariables],
      [updateQuery |-> QueryWithVariables(postQuery, postVariables),
       idField |-> Str(userIdKey), operationType |-> Str(UPDATE),
       mapResultToUpdate |-> mapResultToUpdateFn, variables |-> postVariables] }
    \cup
    { [k \in {"updateQuery", callbackKey} |->
          IF k = "updateQuery" THEN updateQuery ELSE callback] :
        updateQuery \in {postsQuery, Undefined},
        callback \in {callerCallback, Undefined} }

CompletionData == {Payload("createPost", newPost), Payload("deletePost", post3), Undefined}

\* the call made last has run to completion and its caller goes on
Return ==
    /\ call.op # "none"
    /\ call' = [op |-> "none"]
    /\ UNCHANGED <<offlineConfig, cache, writeQueryCalls>>

\* calls run one after the other: the next call starts when the last has returned
Next ==
    \/ call.op = "none" /\ \E config \in ConfigInputs : setConfig(config)
    \/ call.op = "none" /\ \E a \in UpdateCacheInputs : UpdateCache(a)
    \/ Return

Spec == Init /\ [][Next]_vars

(***************************************************************************)
(* The options builders on their own: a builder is called with options,    *)
(* and the operation the options were built for completes with data.       *)
(***************************************************************************)
NextOptions ==
    \/ \E options \in OptionInputs("update") : GetMutationOptions(options)
    \/ \E options \in OptionInputs("onSubscriptionData") : GetSubscriptionOptions(options)
    \/ \E data \in CompletionData : Complete(okClient, data)

SpecOptions == Init /\ [][NextOptions]_vars

(***************************************************************************)
(* The classifier on its own: setConfig with prefix lists, and calls of    *)
(* getOpTypeFromOperationName.                                             *)
(***************************************************************************)
Classify(opNameArg) ==
    /\ call' = [op |-> "getOpTypeFromOperationName", opName |-> opNameArg,
                result |-> getOpTypeFromOperationName(opNameArg)]
    /\ UNCHANGED <<offlineConfig, cache, writeQueryCalls>>

\* configurations whose lists overlap across categories, or drop prefixes
PrefixConfigs ==
    { [prefixesForUpdate |-> << "update", "set" >>],
      [prefixesForRemove |-> << "delete", "put",
                                "edit" >>],
      [prefixesForAdd |-> prefixesForAdd, prefixesForRemove |-> prefixesForRemove,
       prefixesForUpdate |-> prefixesForUpdate] }

OpNameInputs == {Undefined, Str("")} \cup {Str(n) : n \in PrefixNames \cup TestNames}

NextClassify ==
    \/ \E config \in PrefixConfigs : setConfig(config)
    \/ \E opNameArg \in OpNameInputs : Classify(opNameArg)

InitClassify ==
    /\ offlineConfig = initialOfflineConfig
    /\ cache = [k \in CacheKeys |-> Miss]
    /\ call = [op |-> "none"]
    /\ writeQueryCalls = 0

SpecClassify == InitClassify /\ [][NextClassify]_vars

(***************************************************************************)
(* The update strategies on their own: the inputs of a getUpdater call are *)
(* drawn by InitUpdater, ApplyUpdater makes the call, and ApplyAgain       *)
(* applies the same updater to its own result with a further item.         *)
(***************************************************************************)
MaxLen == 3

Pending == [t |-> "pending"]

userIdField == Str("user_id")

\* {id: 1}, the item of the remove test
idOnlyItem == Obj(<< <<"id", Num(1)>> >>)

CollectionElements == {post1, post2, post3, updatedPost}

SeqsUpTo(S, n) == UNION {[1..m -> S] : m \in 0..n}

Collections == {Arr(e) : e \in SeqsUpTo(CollectionElements, MaxLen)}

CurrentValues == Collections \cup {post3, Obj(<<>>), Null}

NewItems == {newPost, updatedPost, idOnlyItem, post1, Undefined}

IdFields == {Str("id"), userIdField}

InitUpdater ==
    /\ offlineConfig = initialOfflineConfig
    /\ cache = [k \in CacheKeys |-> Miss]
    /\ writeQueryCalls = 0
    /\ \E opType \in CacheOperationTypes, idField \in IdFields,
          currentValue \in CurrentValues, newItem \in NewItems :
           call = [op |-> "getUpdater", opType |-> opType, idField |-> idField,
                   currentValue |-> currentValue, newItem |-> newItem,
                   result |-> Pending, again |-> Pending, result2 |-> Pending]

ApplyUpdater ==
    /\ call.op = "getUpdater"
    /\ call.result = Pending
    /\ call' = [call EXCEPT !.result = getUpdater(call.opType, call.idField,
                                                   call.currentValue, call.newItem)]
    /\ UNCHANGED <<offlineConfig, cache, writeQueryCalls>>

ApplyAgain(newItem) ==
    /\ call.op = "getUpdater"
    /\ call.result # Pending
    /\ call.again = Pending
    /\ ~IsThrow(call.result)
    /\ call' = [call EXCEPT !.again = newItem,
                            !.result2 = getUpdater(call.opType, call.idField,
                                                   call.result, newItem)]
    /\ UNCHANGED <<offlineConfig, cache, writeQueryCalls>>

NextUpdater ==
    \/ ApplyUpdater
    \/ \E newItem \in NewItems : ApplyAgain(newItem)

SpecUpdater == InitUpdater /\ [][NextUpdater]_vars

(***************************************************************************)
(* Claims about the classifier, checked under SpecClassify.                *)
(***************************************************************************)
\* the name a call of getOpTypeFromOperationName classifies (its default is '')
ClassifiedName == IF call.opName = Undefined THEN "" ELSE call.opName.s

\* the lower-cased name starts with a prefix of the list, or with "on" + that prefix
Matches(prefixes, name) ==
    LET lowered == toLowerCase(name)
    IN \E p \in Range(prefixes) :
           startsWith(lowered, p) \/ startsWith(lowered, on \o p)

IsClassifyCall == call.op = "getOpTypeFromOperationName"

\* C3: for every configuration of the three prefix lists, the result of
\* getOpTypeFromOperationName is the first matching category in the order ADD,
\* REMOVE, UPDATE (ADD wins over REMOVE, REMOVE over UPDATE), AUTO when none matches.
C3_FirstMatchingCategoryWins ==
    IsClassifyCall =>
        call.result =
            IF Matches(offlineConfig.prefixesForAdd, ClassifiedName) THEN ADD
            ELSE IF Matches(offlineConfig.prefixesForRemove, ClassifiedName) THEN REMOVE
            ELSE IF Matches(offlineConfig.prefixesForUpdate, ClassifiedName) THEN UPDATE
            ELSE AUTO

HasDefaultPrefixes ==
    /\ offlineConfig.prefixesForAdd = prefixesForAdd
    /\ offlineConfig.prefixesForRemove = prefixesForRemove
    /\ offlineConfig.prefixesForUpdate = prefixesForUpdate

\* C4: under the default configuration a name whose lower-cased form starts with a
\* default prefix p, or with "on" + p, is classified as the category of p, and a name
\* that starts with no prefix (the empty and the absent name included) as AUTO.
C4_DefaultPrefixClassification ==
    (IsClassifyCall /\ HasDefaultPrefixes) =>
        /\ Matches(prefixesForAdd, ClassifiedName) => call.result = ADD
        /\ Matches(prefixesForRemove, ClassifiedName) => call.result = REMOVE
        /\ Matches(prefixesForUpdate, ClassifiedName) => call.result = UPDATE
        /\ (~Matches(prefixesForAdd, ClassifiedName)
            /\ ~Matches(prefixesForRemove, ClassifiedName)
            /\ ~Matches(prefixesForUpdate, ClassifiedName)) => call.result = AUTO

\* onCreatePost is classified ADD under the default configuration
C4_Witness ==
    /\ IsClassifyCall
    /\ HasDefaultPrefixes
    /\ call.opName = Str("onCreatePost")
    /\ call.result = ADD

(***************************************************************************)
(* Claims about the update strategies, checked under SpecUpdater.          *)
(***************************************************************************)
\* the identity value of an item under an identity field
IdentityOf(item, idField) == Get(item, ToKey(idField))

\* the elements whose identity value differs from the item's, in their order
RECURSIVE Without(_, _, _)
Without(elems, item, idField) ==
    IF elems = <<>> THEN <<>>
    ELSE IF IdentityOf(Head(elems), idField) = IdentityOf(item, idField)
         THEN Without(Tail(elems), item, idField)
         ELSE <<Head(elems)>> \o Without(Tail(elems), item, idField)

UpdaterCalled(opType) ==
    call.op = "getUpdater" /\ call.opType = opType /\ call.result # Pending

OnCollection == IsArray(call.currentValue) /\ ~Falsy(call.newItem)

\* C5: ADD on a Collection c with item x gives c without the elements of x's
\* identity value, in order, followed by x: x is last and the only element of its
\* identity value; ADD again with an item y of the same identity value gives
\* ADD(c, y), and with x itself gives ADD(c, x); on a single Item ADD gives the item.
C5_AddDedupThenAppend ==
    UpdaterCalled(ADD) =>
        LET c == call.currentValue
            x == call.newItem
            y == call.again
            f == call.idField
            r == call.result
        IN /\ OnCollection =>
                /\ r = Arr(Without(c.e, x, f) \o <<x>>)
                /\ r.e[Len(r.e)] = x
                /\ \A i \in 1..(Len(r.e) - 1) : IdentityOf(r.e[i], f) # IdentityOf(x, f)
                /\ (y # Pending /\ ~Falsy(y) /\ IdentityOf(y, f) = IdentityOf(x, f)) =>
                       call.result2 = Arr(Without(c.e, y, f) \o <<y>>)
                /\ y = x => call.result2 = r
           /\ ~IsArray(c) => r = x

\* ADD of post1 to [post1, post2, post3] moved it to the end, and ADD of {id: 1}
\* to that result replaced it
C5_Witness ==
    /\ UpdaterCalled(ADD)
    /\ call.idField = Str("id")
    /\ call.currentValue = Arr(<<post1, post2, post3>>)
    /\ call.newItem = post1
    /\ call.result = Arr(<<post2, post3, post1>>)
    /\ call.again = idOnlyItem
    /\ call.result2 = Arr(<<post2, post3, idOnlyItem>>)

\* C6: REMOVE on a Collection c with item x gives the elements of c whose identity
\* value differs from x's, in order ([post1, post2, post3] and {id: 1} give
\* [post2, post3]); with no item it gives a copy of c; on a single Item it gives null.
C6_RemoveFiltersByIdentity ==
    UpdaterCalled(REMOVE) =>
        LET c == call.currentValue
            x == call.newItem
        IN /\ OnCollection => call.result = Arr(Without(c.e, x, call.idField))
           /\ (c = Arr(<<post1, post2, post3>>) /\ x = idOnlyItem
               /\ call.idField = Str("id")) => call.result = Arr(<<post2, post3>>)
           /\ (IsArray(c) /\ x = Undefined) => call.result = c
           /\ ~IsArray(c) => call.result = Null

\* REMOVE of {id: 1} from [post1, post2, post3] gave [post2, post3]
C6_Witness ==
    /\ UpdaterCalled(REMOVE)
    /\ call.idField = Str("id")
    /\ call.currentValue = Arr(<<post1, post2, post3>>)
    /\ call.newItem = idOnlyItem
    /\ call.result = Arr(<<post2, post3>>)

C8_UpdateMergesIntoMatch ==
    (UpdaterCalled(UPDATE) /\ OnCollection) =>
        LET c == call.currentValue
            x == call.newItem
            r == call.result
        IN \A i \in 1..Len(c.e) :
               IdentityOf(c.e[i], call.idField) = IdentityOf(x, call.idField) =>
                   /\ \A k \in Range(Keys(x)) : Get(r.e[i], k) = Get(x, k)
                   /\ \A k \in Range(Keys(c.e[i])) \ Range(Keys(x)) :
                          Get(r.e[i], k) = Get(c.e[i], k)

(***************************************************************************)
(* Claims about updateCache, checked under Spec.                           *)
(***************************************************************************)
\* the query and variables a recipe's updateQuery names
Target(updateQuery) ==
    IF updateQuery.t = "qv"
    THEN <<updateQuery.query,
           IF Falsy(updateQuery.variables) THEN noVariables ELSE updateQuery.variables>>
    ELSE <<updateQuery, noVariables>>

NamesTarget(a) == Target(a.updateQuery) \in DOMAIN cache

\* the value of the payload's single field
FieldValue(data) ==
    IF Falsy(data) \/ Len(ObjectKeys(data)) = 0 THEN Undefined
    ELSE Get(data, ObjectKeys(data)[1])

\* readQuery on the target of the call returns a non-empty result from the cache
Primed(a) ==
    /\ NamesTarget(a)
    /\ a.client.readQuery # "throws"
    /\ cache[Target(a.updateQuery)] # Miss
    /\ ~Falsy(cache[Target(a.updateQuery)])

\* the value with the part at the path replaced
RECURSIVE ReplacedAt(_, _, _)
ReplacedAt(v, path, x) ==
    IF path = <<>> THEN x
    ELSE Put(v, Head(path), ReplacedAt(Get(v, Head(path)), Tail(path), x))

\* the data the claim expects a call to write, or a thrown error where the updater
\* gives no value
ExpectedData(a, idFieldName) ==
    LET read == cache[Target(a.updateQuery)]
        field == getOperationFieldName(Target(a.updateQuery)[1])
        name == Str(ObjectKeys(a.data)[1])
        item == IF ~Falsy(a.mapResultToUpdate) THEN applyFn(a.mapResultToUpdate, a.data)
                ELSE FieldValue(a.data)
        opType == IF a.operationType \in {Undefined, Str(AUTO)}
                  THEN getOpTypeFromOperationName(name)
                  ELSE a.operationType.s
        found == findArrayInObject(Get(read, field))
        location == IF found = Undefined THEN <<field>> ELSE <<field>> \o found.p
        current == getValueByPath(read, Path(location))
        update == getUpdater(opType, idFieldName, current, item)
    IN IF IsThrow(update) THEN update ELSE ReplacedAt(read, location, update)

\* C1: for a primed cache and a payload whose single field value is truthy,
\* updateCache performs exactly one writeQuery, under the query and variables it
\* read, whose data is the read result with the value at the patch location (the
\* query's result field, or the first array inside that field's value) replaced by
\* updater(current value, item), every other part unchanged.
C1_PrimedPatchWritesOnce ==
    [][(call'.op = "updateCache" /\ Primed(call'.args)
        /\ ~Falsy(FieldValue(call'.args.data))) =>
           LET a == call'.args
               out == call'.out
           IN /\ Len(out.writes) = 1
              /\ out.reads = <<Target(a.updateQuery)>>
              /\ out.writes[1].query = Target(a.updateQuery)[1]
              /\ out.writes[1].variables = Target(a.updateQuery)[2]
              /\ out.writes[1].data = ExpectedData(a, out.idFieldName)]_vars

\* the cases in which the claim says updateCache stops early
StopsEarly(a) ==
    \/ Falsy(a.data)
    \/ Falsy(FieldValue(a.data))
    \/ a.client.readQuery = "throws"
    \/ cache[Target(a.updateQuery)] = Miss
    \/ Falsy(cache[Target(a.updateQuery)])

\* C2: whenever updateCache stops early (the payload is absent, its single field
\* value is falsy, with or without mapResultToUpdate, readQuery throws on a miss or
\* for another reason, or readQuery returns nothing), for a recipe that names a
\* target query, it calls writeQuery zero times, raises no error and leaves the
\* cache unchanged.
C2_EarlyStopWritesNothing ==
    [][(call'.op = "updateCache" /\ NamesTarget(call'.args) /\ StopsEarly(call'.args)) =>
           /\ call'.out.writes = <<>>
           /\ call'.out.outcome = "returned"
           /\ call'.out.error = "none"
           /\ cache' = cache
           /\ writeQueryCalls' = writeQueryCalls]_vars

\* a call with a truthy payload against the query that was never primed returned
\* after its read, with no write
C2_Witness ==
    /\ call.op = "updateCache"
    /\ call.args.data = Payload("createPost", newPost)
    /\ call.args.updateQuery = featuredPostsQuery
    /\ call.args.client = okClient
    /\ call.out.reads = << <<featuredPostsQuery, noVariables>> >>
    /\ call.out.outcome = "returned"
    /\ call.out.writes = <<>>
    /\ cache[<<featuredPostsQuery, noVariables>>] = Miss

\* C10: a patch never mutates the object graph readQuery returned: after
\* updateCache every object and array reachable from the result holds the fields
\* and elements it held before; the data handed to writeQuery is a new root,
\* distinct from the one read whenever the patch changed anything.
C10_ReadResultNotMutated ==
    (call.op = "updateCache" /\ call.out.readRoot # Undefined) =>
        LET out == call.out
        IN /\ \A at \in DOMAIN out.heapBefore :
                  /\ at \in DOMAIN out.heapAfter
                  /\ out.heapAfter[at] = out.heapBefore[at]
           /\ Deref(out.heapAfter, out.readRoot) = out.cachedQueryResult
           /\ (out.writes # <<>> /\ out.writes[1].data # out.cachedQueryResult) =>
                  out.writtenRoot # out.readRoot

\* an ADD into the array nested under feed.featured wrote a new root, and the
\* graph that was read still holds the two posts it held
C10_Witness ==
    /\ call.op = "updateCache"
    /\ call.args.data = Payload("createPost", newPost)
    /\ call.out.opType = ADD
    /\ call.out.cachedQueryResult =
           Obj(<< <<feedKey, Obj(<< <<totalKey, Num(2)>>,
                                    <<featuredKey, Arr(<<post1, post3>>)>> >>)>> >>)
    /\ call.out.writes # <<>>
    /\ Get(Get(call.out.writes[1].data, feedKey), featuredKey) = Arr(<<post1, post3, newPost>>)
    /\ call.out.writtenRoot # call.out.readRoot
    /\ Deref(call.out.heapAfter, call.out.readRoot) = call.out.cachedQueryResult

(***************************************************************************)
(* Claims about the options builders, checked under SpecOptions.           *)
(***************************************************************************)
IsBuilderCall == call.op \in {"getMutationOptions", "getSubscriptionOptions"}

\* the key of the completion callback of the builder of the call
CallbackKey ==
    IF call.op = "complete"
    THEN (IF call.of = "getMutationOptions" THEN "update" ELSE "onSubscriptionData")
    ELSE call.callbackKey

\* the caller's options carry a completion callback of their own
CallerSupplied == ~Falsy(Field(call.options, CallbackKey))

HasUpdateQuery == ~Falsy(Field(call.options, "updateQuery"))

\* C9: the builders inject the cache-patching callback if and only if the options
\* carry an updateQuery and the caller supplied no callback: a caller's callback is
\* returned as it is and the patch is never invoked on completion; with an
\* updateQuery and no caller callback the returned callback invokes updateCache
\* with the same updateQuery, idField, operationType and mapResultToUpdate; every
\* other option is passed through and no recipe field is returned.
C9_InjectsIffNoCallerCallback ==
    (IsBuilderCall \/ call.op = "complete") =>
        LET o == call.options
            r == call.returned
            k == CallbackKey
        IN /\ CallerSupplied => Field(r, k) = o[k]
           /\ (HasUpdateQuery /\ ~CallerSupplied) => Field(r, k) = Injected(o)
           /\ (Field(r, k) = Injected(o)) => (HasUpdateQuery /\ ~CallerSupplied)
           /\ \A key \in DOMAIN o \ (RecipeKeys \cup {k}) :
                  key \in DOMAIN r /\ r[key] = o[key]
           /\ DOMAIN r \cap RecipeKeys = {}
           /\ call.op = "complete" =>
                  /\ CallerSupplied => call.invoked = "caller"
                  /\ (HasUpdateQuery /\ ~CallerSupplied) =>
                         /\ call.invoked = "updateCache"
                         /\ call.args.updateQuery = Field(o, "updateQuery")
                         /\ call.args.idField = Field(o, "idField")
                         /\ call.args.operationType = Field(o, "operationType")
                         /\ call.args.mapResultToUpdate = Field(o, "mapResultToUpdate")

(***************************************************************************)
(* Claims about the errors of updateCache, checked under Spec.             *)
(***************************************************************************)
\* C11: the patch path never throws on its own: for every payload, recipe (one with
\* no target query and one whose intent is UPDATE included) and cached result (one
\* whose query field holds null included), updateCache returns normally or
\* propagates the error thrown by the cache's writeQuery; no other error reaches
\* the caller.
C11_OnlyWriteErrorsPropagate ==
    call.op = "updateCache" =>
        \/ call.out.outcome = "returned"
        \/ /\ call.out.outcome = "threw"
           /\ call.out.error = "WriteError"
           /\ call.args.client.writeQuery = "throws"

(***************************************************************************)
(* Claims about the identity field of a patch, checked under Spec.         *)
(***************************************************************************)
\* the call got as far as choosing its identity field
ChoseIdField == call.op = "updateCache" /\ call.out.readRoot # Undefined

\* the item a call applies: the mapped payload when mapResultToUpdate is given
ItemToApply(a) ==
    IF ~Falsy(a.mapResultToUpdate) THEN applyFn(a.mapResultToUpdate, a.data)
    ELSE FieldValue(a.data)

ConfiguredCallback == Field(offlineConfig, "getIdFieldFromObject")

\* C12: the identity field of a patch is the recipe's idField when given;
\* otherwise the value the configured getIdFieldFromObject returns for the item to
\* apply (the mapped item when mapResultToUpdate is given), when the callback is
\* configured and returns a value; otherwise the configured default idField.
C12_IdFieldPrecedence ==
    ChoseIdField =>
        LET a == call.args
            item == ItemToApply(a)
        IN /\ call.out.mutatedItem = item
           /\ call.out.idFieldName =
                 IF ~Falsy(a.idField) THEN a.idField
                 ELSE IF ~Falsy(ConfiguredCallback)
                         /\ ~Falsy(applyFn(ConfiguredCallback, item))
                 THEN applyFn(ConfiguredCallback, item)
                 ELSE offlineConfig.idField

\* with no idField in the recipe and the callback configured, a patch of the posts
\* with a mapped item used the field the callback returned for the mapped item
C12_Witness ==
    /\ ChoseIdField
    /\ call.args.idField = Undefined
    /\ call.args.mapResultToUpdate = mapResultToUpdateFn
    /\ ConfiguredCallback = getIdFieldFromObjectFn
    /\ offlineConfig.idField = Str(idKey)
    /\ call.out.mutatedItem = Spread(newPost, Obj(<< <<titleKey, mappedTitle>> >>))
    /\ call.out.idFieldName = Str(userIdKey)
    /\ call.out.writes # <<>>

(***************************************************************************)
(* Claims about items without the identity field, checked under            *)
(* SpecUpdater.                                                            *)
(***************************************************************************)
\* C13: when the item to apply lacks the identity field in use, the comparison
\* matches no element of the Collection: REMOVE and UPDATE return a Collection with
\* the elements of the current one, and ADD only appends the item and removes no
\* element; also when elements of the Collection lack that field themselves.
C13_ItemWithoutIdentityMatchesNothing ==
    (call.op = "getUpdater" /\ call.result # Pending /\ OnCollection
     /\ IdentityOf(call.newItem, call.idField) = Undefined) =>
        LET c == call.currentValue
            x == call.newItem
        IN /\ call.opType \in {REMOVE, UPDATE} => call.result = c
           /\ call.opType = ADD => call.result = Arr(Append(c.e, x))

(***************************************************************************)
(* Claims about the cached Collection, checked under Spec.                 *)
(***************************************************************************)
\* the Collection stored under a target: the first array of its result field
CollectionOf(stored, query) ==
    LET value == Get(stored, getOperationFieldName(query))
    IN getValueByPath(value, findArrayInObject(value))

HoldsCollection(key) ==
    /\ cache[key] # Miss
    /\ IsObject(cache[key])
    /\ IsArray(CollectionOf(cache[key], key[1]))

\* C14: a cached Collection that starts with pairwise distinct identity values
\* holds, after any sequence of updateCache calls with intents ADD, UPDATE, REMOVE
\* or AUTO, interleaved with setConfig calls and with any idField given with a call
\* or returned by getIdFieldFromObject, at most one element per value of the
\* default identity field.
C14_CollectionUniqueByIdentity ==
    \A key \in DOMAIN cache :
        HoldsCollection(key) =>
            LET e == CollectionOf(cache[key], key[1]).e
            IN \A i, j \in 1..Len(e) :
                   i # j => IdentityOf(e[i], offlineConfig.idField)
                                # IdentityOf(e[j], offlineConfig.idField)

====
